---- MODULE Spec2Model ----
(***************************************************************************)
(* A model of the Jelly package manager core: the version resolver         *)
(* (src/lib/VersionResolver.ts), the lockfile manager (LockfileManager),    *)
(* the package downloader (src/lib/PackageDownloader.ts), the project       *)
(* manager and the engine (src/lib/managers/JellyManager.ts).               *)
(*                                                                         *)
(* Conventions.  A JavaScript object used as a map keeps its keys in        *)
(* insertion order, so a map is a sequence of [k, v] records with distinct  *)
(* keys.  An optional value is a sequence of length 0 or 1.  A version      *)
(* "1.4.3" is the triple <<1, 4, 3>>.  A scope, a name and a directory name *)
(* are sequences of underscore-free segments: the name "x_y" is             *)
(* <<"x", "y">> and the directory "c_x_y" is <<"c", "x", "y">>.             *)
(***************************************************************************)
EXTENDS Integers, Sequences, FiniteSets, TLC

VARIABLES
    regLevel,        \* how much of the registry is published (it only grows)
    opCount,         \* the number of engine operations run so far
    faulted,         \* a download has failed or was interrupted (at most one does)
    manifestExists,  \* jelly.json exists
    manifest,        \* jelly.json: [dependencies, devDependencies, serverDependencies, jelly]
    rojoExists,      \* the Rojo project file exists
    lockfile,        \* jelly-lock.json: <<>> when absent, else <<lockfile record>>
    packagesDir,     \* the Packages directory exists
    rootDirs,        \* Packages/<dir>: directory name -> content
    indexExists,     \* Packages/_Index exists
    indexDirs,       \* Packages/_Index/<dir>: directory name -> content
    shims,           \* Packages/<alias>.lua: alias -> directory its require names
    lastOp,          \* what the last engine operation was and did
    resolution,      \* analyze: <<>> or <<the result of the last resolve_tree>>
    firstPicks,      \* analyze: <<>> or <<the versions the first resolve_tree picked>>
    walk             \* a call of resolveDependencyTree in progress: its frames and maps

vars == <<regLevel, opCount, faulted, manifestExists, manifest, rojoExists, lockfile, packagesDir,
          rootDirs, indexExists, indexDirs, shims, lastOp, resolution, firstPicks, walk>>

diskVars == <<packagesDir, rootDirs, indexExists, indexDirs, shims>>

analysisVars == <<resolution, firstPicks, walk>>

-----------------------------------------------------------------------------
(* Maps that keep insertion order *)

Keys(m) == {m[i].k : i \in DOMAIN m}

KeySeq(m) == [i \in DOMAIN m |-> m[i].k]

Has(m, key) == \E i \in DOMAIN m : m[i].k = key

Get(m, key) == m[CHOOSE i \in DOMAIN m : m[i].k = key].v

\* obj[key] = val: an existing key keeps its position
Put(m, key, val) ==
    IF Has(m, key)
    THEN [i \in DOMAIN m |-> IF m[i].k = key THEN [k |-> key, v |-> val] ELSE m[i]]
    ELSE Append(m, [k |-> key, v |-> val])

\* delete obj[key]
Del(m, key) == SelectSeq(m, LAMBDA e : e.k # key)

RECURSIVE Spread(_, _)
\* { ...a, ...b }
Spread(a, b) ==
    IF b = <<>> THEN a ELSE Spread(Put(a, Head(b).k, Head(b).v), Tail(b))

IsMap(m) == \A i, j \in DOMAIN m : m[i].k = m[j].k => i = j

-----------------------------------------------------------------------------
(* Versions and ranges (the semver package) *)

\* semver.compare(a, b) > 0
VGt(a, b) ==
    \/ a[1] > b[1]
    \/ a[1] = b[1] /\ a[2] > b[2]
    \/ a[1] = b[1] /\ a[2] = b[2] /\ a[3] > b[3]

VGe(a, b) == a = b \/ VGt(a, b)

Exact(v) == [kind |-> "exact", v |-> v]
Caret(v) == [kind |-> "caret", v |-> v]
Tilde(v) == [kind |-> "tilde", v |-> v]
AtLeast(v) == [kind |-> "gte", v |-> v]
AnyVersion == [kind |-> "any", v |-> <<0, 0, 0>>]

\* the exclusive upper bound of ^v
CaretUpper(v) ==
    IF v[1] > 0 THEN <<v[1] + 1, 0, 0>>
    ELSE IF v[2] > 0 THEN <<0, v[2] + 1, 0>>
    ELSE <<0, 0, v[3] + 1>>

\* semver.satisfies(version, range)
SemverSatisfies(version, range) ==
    CASE range.kind = "exact" -> version = range.v
      [] range.kind = "caret" -> VGe(version, range.v) /\ VGt(CaretUpper(range.v), version)
      [] range.kind = "tilde" -> VGe(version, range.v)
                                 /\ VGt(<<range.v[1], range.v[2] + 1, 0>>, version)
      [] range.kind = "gte"   -> VGe(version, range.v)
      [] range.kind = "any"   -> TRUE

-----------------------------------------------------------------------------
(* The registry *)

PA == [scope |-> <<"a">>, name |-> <<"x">>]
PB == [scope |-> <<"b">>, name |-> <<"y">>]
PC == [scope |-> <<"c">>, name |-> <<"x", "y">>]
PD == [scope |-> <<"d">>, name |-> <<"x">>]

Packages == {PA, PB, PC, PD}

Dep(p, r) == [k |-> p, v |-> r]

VersionEntry(version, lvl, deps, serverDeps, devDeps) ==
    [version |-> version, lvl |-> lvl, dependencies |-> deps,
     serverDependencies |-> serverDeps, devDependencies |-> devDeps]

\* Every version the registry will ever list, newest first; lvl is the
\* registry level from which the version is published.  From level 2 on the
\* registry holds a cycle: a/x@1.7.0 depends on b/y, whose 2.0.0 depends on a/x.
AllVersions(pkg) ==
    CASE pkg = PA -> << VersionEntry(<<1, 7, 0>>, 2, <<Dep(PB, Caret(<<2, 0, 0>>))>>,
                                     <<>>, <<>>),
                        VersionEntry(<<1, 6, 0>>, 1, <<>>, <<>>, <<>>),
                        VersionEntry(<<1, 5, 2>>, 0, <<>>, <<>>, <<>>),
                        VersionEntry(<<1, 4, 3>>, 0, <<>>, <<>>, <<>>),
                        VersionEntry(<<1, 2, 0>>, 0, <<>>, <<>>, <<>>) >>
      [] pkg = PB -> << VersionEntry(<<2, 0, 0>>, 0, <<Dep(PA, Caret(<<1, 5, 0>>))>>,
                                     <<>>, <<Dep(PD, Caret(<<0, 1, 0>>))>>),
                        VersionEntry(<<1, 0, 0>>, 0, <<Dep(PA, Tilde(<<1, 4, 0>>))>>,
                                     <<Dep(PD, Caret(<<0, 1, 0>>))>>, <<>>) >>
      [] pkg = PC -> << VersionEntry(<<1, 0, 0>>, 0, <<Dep(PA, Exact(<<1, 2, 0>>))>>,
                                     <<>>, <<>>) >>
      [] pkg = PD -> << VersionEntry(<<0, 2, 0>>, 0, <<>>,
                                     <<Dep(PB, Caret(<<2, 0, 0>>))>>, <<>>),
                        VersionEntry(<<0, 1, 5>>, 0, <<>>, <<>>, <<>>),
                        VersionEntry(<<0, 1, 0>>, 0, <<>>, <<>>, <<>>) >>
      [] OTHER -> <<>>

\* WallyAPI.getPackageInfo: the versions, newest first; <<>> stands for 404
getPackageInfo(pkg) == SelectSeq(AllVersions(pkg), LAMBDA e : e.lvl <= regLevel)

Versions(pkg) == {getPackageInfo(pkg)[i].version : i \in DOMAIN getPackageInfo(pkg)}

VersionInfo(pkg, version) ==
    LET info == getPackageInfo(pkg)
    IN  info[CHOOSE i \in DOMAIN info : info[i].version = version]

\* WallyAPI.getLatestVersion: <<>> when it throws
getLatestVersion(pkg) ==
    IF getPackageInfo(pkg) = <<>> THEN <<>> ELSE <<getPackageInfo(pkg)[1].version>>

MaxVersion(S) == CHOOSE v \in S : \A w \in S : VGe(v, w)

-----------------------------------------------------------------------------
(* VersionResolver *)

\* findBestMatch: <<>> for null
findBestMatch(versionRange, availableVersions) ==
    LET satisfyingVersions ==
            {v \in availableVersions : SemverSatisfies(v, versionRange)}
    IN  IF satisfyingVersions = {} THEN <<>> ELSE <<MaxVersion(satisfyingVersions)>>

\* VersionResolver.resolveVersion: <<>> when it throws, else <<version>>
resolveVersion(pkg, versionRange) ==
    IF getPackageInfo(pkg) = <<>> THEN <<>>
    ELSE findBestMatch(versionRange, Versions(pkg))

isVersionCompatible(resolvedVersion, requiredRange) ==
    SemverSatisfies(resolvedVersion, requiredRange)

getVersionRange(version) == Caret(version)

\* findCompatibleVersion: the first listed version that satisfies all ranges
findCompatibleVersion(pkg, ranges) ==
    LET info == getPackageInfo(pkg)
        ok == {i \in DOMAIN info :
                 \A r \in ranges : SemverSatisfies(info[i].version, r)}
    IN  IF ok = {} THEN <<>>
        ELSE <<info[CHOOSE i \in ok : \A j \in ok : i <= j].version>>

\* conflicts.find(c => c.packageName === packageName), created when missing,
\* then conflict.conflicts.push({requiredBy, versionRange})
AddConflict(conflicts, pkg, existingVersion, parentChain, versionRange) ==
    LET found == {i \in DOMAIN conflicts : conflicts[i].packageName = pkg}
        base == IF found = {}
                THEN Append(conflicts, [packageName |-> pkg, conflicts |-> <<>>,
                                        resolvedVersion |-> <<existingVersion>>])
                ELSE conflicts
        at == CHOOSE i \in DOMAIN base :
                  /\ base[i].packageName = pkg
                  /\ \A j \in DOMAIN base : base[j].packageName = pkg => i <= j
    IN  [base EXCEPT ![at].conflicts =
            Append(@, [requiredBy |-> parentChain, versionRange |-> versionRange])]

RECURSIVE resolveDependencyTree(_, _, _, _, _)
\* The loop of resolveDependencyTree over the entries of `dependencies`;
\* `conflicts` is the call's local list.  Returns [visited, tree, conflicts].
resolveDependencyTree(dependencies, visited, dependencyTree, parentChain, conflicts) ==
    IF dependencies = <<>>
    THEN [visited |-> visited, tree |-> dependencyTree, conflicts |-> conflicts]
    ELSE
      LET pkg == Head(dependencies).k
          versionRange == Head(dependencies).v
          rest == Tail(dependencies)
      IN
      IF pkg \in visited
      THEN
        LET clash == /\ Has(dependencyTree, pkg)
                     /\ ~isVersionCompatible(Get(dependencyTree, pkg), versionRange)
            conflicts1 == IF clash
                          THEN AddConflict(conflicts, pkg, Get(dependencyTree, pkg),
                                           parentChain, versionRange)
                          ELSE conflicts
        IN  resolveDependencyTree(rest, visited, dependencyTree, parentChain, conflicts1)
      ELSE
        LET visited1 == visited \cup {pkg}
            resolved == resolveVersion(pkg, versionRange)
        IN
        IF resolved = <<>>
        THEN \* the catch block: a warning, nothing recorded
             resolveDependencyTree(rest, visited1, dependencyTree, parentChain, conflicts)
        ELSE
          LET differs == /\ Has(dependencyTree, pkg)
                         /\ Get(dependencyTree, pkg) # resolved[1]
              compatible ==
                  IF differs
                  THEN findCompatibleVersion(pkg,
                           {versionRange, getVersionRange(Get(dependencyTree, pkg))})
                  ELSE <<>>
              tree1 == IF ~differs THEN Put(dependencyTree, pkg, resolved[1])
                       ELSE IF compatible # <<>>
                            THEN Put(dependencyTree, pkg, compatible[1])
                            ELSE dependencyTree
              conflicts1 == IF differs /\ compatible = <<>>
                            THEN AddConflict(conflicts, pkg, Get(dependencyTree, pkg),
                                             parentChain, versionRange)
                            ELSE conflicts
              versionInfo == VersionInfo(pkg, resolved[1])
              subDeps == Spread(versionInfo.dependencies, versionInfo.serverDependencies)
              sub == IF subDeps # <<>>
                     THEN resolveDependencyTree(subDeps, visited1, tree1,
                                                Append(parentChain, pkg), <<>>)
                     ELSE [visited |-> visited1, tree |-> tree1, conflicts |-> <<>>]
          IN  resolveDependencyTree(rest, sub.visited, sub.tree, parentChain,
                                    conflicts1 \o sub.conflicts)

\* resolve_tree(direct): the call with the default arguments
resolveTree(dependencies) == resolveDependencyTree(dependencies, {}, <<>>, <<>>, <<>>)

\* no call of resolveDependencyTree has been made
NoWalk == [status |-> "idle", stack |-> <<>>, visited |-> {}, tree |-> <<>>,
           conflicts |-> <<>>, requests |-> <<>>, cache |-> {}]

-----------------------------------------------------------------------------
(* LockfileManager *)

\* isCompatibleVersion(version, baseVersion, type)
LM_isCompatibleVersion(version, baseVersion, type) ==
    CASE type = "caret" ->
             /\ version[1] = baseVersion[1]
             /\ \/ version[2] > baseVersion[2]
                \/ version[2] = baseVersion[2] /\ version[3] >= baseVersion[3]
      [] type = "tilde" ->
             /\ version[1] = baseVersion[1]
             /\ version[2] = baseVersion[2]
             /\ version[3] >= baseVersion[3]
      [] OTHER -> FALSE

\* satisfiesRange(version, range)
LM_satisfiesRange(version, range) ==
    CASE range.kind = "caret" -> LM_isCompatibleVersion(version, range.v, "caret")
      [] range.kind = "tilde" -> LM_isCompatibleVersion(version, range.v, "tilde")
      [] range.kind = "exact" -> version = range.v
      [] OTHER -> FALSE  \* a version string never equals ">=1.4.0" or "*"

\* LockfileManager.resolveVersion.  <<version>>, or <<>> when the call throws
\* (404 on the metadata) or returns a string that is no version (the range
\* itself, for a range that starts with neither ^ nor ~ and is no version).
LM_resolveVersion(pkg, versionRange) ==
    IF versionRange.kind \in {"caret", "tilde"}
    THEN LET info == getPackageInfo(pkg)
             ok == {i \in DOMAIN info : LM_satisfiesRange(info[i].version, versionRange)}
         IN  IF info = <<>> THEN <<>>
             ELSE IF ok = {} THEN <<versionRange.v>>
             ELSE <<info[CHOOSE i \in ok : \A j \in ok : i <= j].version>>
    ELSE IF versionRange.kind = "exact" THEN <<versionRange.v>>
    ELSE <<>>

\* the resolved URL of a lockfile entry names the package and the version
ResolvedUrl(pkg, version) == [pkg |-> pkg, version |-> version]

LockfileEntry(pkg, version, versionInfo) ==
    [version |-> version,
     resolved |-> ResolvedUrl(pkg, version),
     dependencies |-> versionInfo.dependencies,
     devDependencies |-> versionInfo.devDependencies]

\* the metadata requests (WallyAPI.getPackageInfo) resolveDependencies makes
\* for one entry: resolveVersion asks for a ^ or ~ range, and the loop asks
\* again for the dependencies of the version, unless resolveVersion threw
LM_requests(pkg, versionRange) ==
    IF versionRange.kind \in {"caret", "tilde"} /\ getPackageInfo(pkg) # <<>>
    THEN <<pkg, pkg>>
    ELSE <<pkg>>

RECURSIVE LM_resolveDependencies(_, _, _, _)
\* resolveDependencies(dependencies, packages, visited): [packages, visited],
\* with the metadata requests made so far
LM_resolveDependencies(dependencies, packages, visited, requests) ==
    IF dependencies = <<>>
    THEN [packages |-> packages, visited |-> visited, requests |-> requests]
    ELSE
      LET pkg == Head(dependencies).k
          versionRange == Head(dependencies).v
          rest == Tail(dependencies)
      IN
      IF pkg \in visited
      THEN LM_resolveDependencies(rest, packages, visited, requests)
      ELSE
        LET visited1 == visited \cup {pkg}
            requests1 == requests \o LM_requests(pkg, versionRange)
            resolvedVersion == LM_resolveVersion(pkg, versionRange)
            found == /\ resolvedVersion # <<>>
                     /\ resolvedVersion[1] \in Versions(pkg)
        IN
        IF ~found
        THEN \* the catch block: a warning, no entry
             LM_resolveDependencies(rest, packages, visited1, requests1)
        ELSE
          LET versionInfo == VersionInfo(pkg, resolvedVersion[1])
              packages1 == Put(packages, pkg,
                               LockfileEntry(pkg, resolvedVersion[1], versionInfo))
              afterDeps == LM_resolveDependencies(versionInfo.dependencies,
                                                  packages1, visited1, requests1)
              afterServer == LM_resolveDependencies(versionInfo.serverDependencies,
                                                    afterDeps.packages, afterDeps.visited,
                                                    afterDeps.requests)
          IN  LM_resolveDependencies(rest, afterServer.packages, afterServer.visited,
                                     afterServer.requests)

\* generateLockfile(config)
generateLockfile(config) ==
    [lockfileVersion |-> 1,
     packages |-> LM_resolveDependencies(
                      Spread(config.dependencies, config.devDependencies),
                      <<>>, {}, <<>>).packages,
     dependencies |-> config.dependencies,
     devDependencies |-> config.devDependencies]

\* the metadata requests generateLockfile(config) makes, in their order
generateRequests(config) ==
    LM_resolveDependencies(Spread(config.dependencies, config.devDependencies),
                           <<>>, {}, <<>>).requests

\* The file jelly-lock.json is <<>> when absent, else <<content>>: what
\* JSON.parse makes of its text, or Malformed when JSON.parse throws.  The
\* name and the version of the project, which nothing reads, are left out.
Malformed == [malformed |-> TRUE]

\* a readLockfile that takes a lockfile of any lockfileVersion
readLockfileAnyVersion(file) ==
    IF file = <<>> THEN <<>>
    ELSE IF file[1] = Malformed THEN <<>>
    ELSE file

\* readLockfile(): <<>> for null
readLockfile(file) ==
    IF file = <<>> THEN <<>>
    ELSE IF file[1] = Malformed THEN <<>>
    ELSE IF file[1].lockfileVersion # 1 THEN <<>>
    ELSE file

\* updateLockfile(config)
updateLockfile(config, file) ==
    LET existingLockfile == readLockfile(file)
    IN  IF existingLockfile = <<>> THEN generateLockfile(config)
        ELSE LET configDeps == Spread(config.dependencies, config.devDependencies)
                 lockfileDeps == Spread(existingLockfile[1].dependencies,
                                        existingLockfile[1].devDependencies)
             IN  IF configDeps # lockfileDeps THEN generateLockfile(config)
                 ELSE existingLockfile[1]

\* a validateLockfile that finds every lockfile invalid
validateLockfileNever(config, file) == FALSE

\* validateLockfile(config)
validateLockfile(config, file) ==
    LET lf == readLockfile(file)
    IN  /\ lf # <<>>
        /\ \A key \in Keys(Spread(config.dependencies, config.devDependencies)) :
               Has(Spread(lf[1].dependencies, lf[1].devDependencies), key)

-----------------------------------------------------------------------------
(* The text of jelly-lock.json.  JSON.stringify(lockfile, null, 2) writes   *)
(* the object as text, here the sequence of its tokens; JSON.parse reads a  *)
(* text back into a tree of objects, strings and numbers, or throws.        *)

Tok(kind, val) == [tok |-> kind, val |-> val]

LBrace == Tok("{", <<>>)
RBrace == Tok("}", <<>>)
Colon == Tok(":", <<>>)
Comma == Tok(",", <<>>)
Str(x) == Tok("str", <<x>>)
Num(n) == Tok("num", <<n>>)

RECURSIVE MembersText(_, _, _)
\* the members of an object from the i-th on: "key": value, separated by commas
MembersText(ks, ts, i) ==
    IF i > Len(ks) THEN <<>>
    ELSE (IF i > 1 THEN <<Comma>> ELSE <<>>)
         \o <<Str(ks[i]), Colon>> \o ts[i] \o MembersText(ks, ts, i + 1)

\* an object with the keys ks, in this order, and the texts ts of their values
ObjectText(ks, ts) == <<LBrace>> \o MembersText(ks, ts, 1) \o <<RBrace>>

\* a text that leaves out the entries of a Record<string, string>
RangeMapTextEmpty(m) == ObjectText(<<>>, <<>>)

\* a Record<string, string>: package name -> range
RangeMapText(m) == ObjectText(KeySeq(m), [i \in DOMAIN m |-> <<Str(m[i].v)>>])

\* a LockfileEntry
EntryText(e) ==
    ObjectText(<<"version", "resolved", "dependencies", "devDependencies">>,
               << <<Str(e.version)>>, <<Str(e.resolved)>>,
                  RangeMapText(e.dependencies), RangeMapText(e.devDependencies) >>)

\* JSON.stringify(lockfile, null, 2)
Stringify(lf) ==
    ObjectText(<<"lockfileVersion", "packages", "dependencies", "devDependencies">>,
               << <<Num(lf.lockfileVersion)>>,
                  ObjectText(KeySeq(lf.packages),
                             [i \in DOMAIN lf.packages |-> EntryText(lf.packages[i].v)]),
                  RangeMapText(lf.dependencies), RangeMapText(lf.devDependencies) >>)

\* what the parser returns: a tree and the position after it, or a failure
Parsed(tree, next) == [ok |-> TRUE, tree |-> tree, next |-> next]
ParseFailed == [ok |-> FALSE, tree |-> <<>>, next |-> 0]

\* the trees of JSON.parse: an object holds its members in order, a string
\* or a number holds its value
Tree(type, m) == [t |-> type, m |-> m]

RECURSIVE ParseValue(_, _)
RECURSIVE ParseMembers(_, _, _)
\* the value that starts at position i of the text
ParseValue(toks, i) ==
    IF i > Len(toks) THEN ParseFailed
    ELSE IF toks[i].tok \in {"str", "num"}
    THEN Parsed(Tree(toks[i].tok, toks[i].val), i + 1)
    ELSE IF toks[i].tok # "{" THEN ParseFailed
    ELSE IF i + 1 <= Len(toks) /\ toks[i + 1].tok = "}"
    THEN Parsed(Tree("obj", <<>>), i + 2)
    ELSE ParseMembers(toks, i + 1, <<>>)

\* a member "key": value has been read: a comma and the next member follow,
\* or the brace that closes the object
ParseMember(toks, key, val, acc) ==
    IF ~val.ok \/ val.next > Len(toks) THEN ParseFailed
    ELSE IF toks[val.next].tok = ","
    THEN ParseMembers(toks, val.next + 1, Append(acc, [k |-> key, v |-> val.tree]))
    ELSE IF toks[val.next].tok = "}"
    THEN Parsed(Tree("obj", Append(acc, [k |-> key, v |-> val.tree])), val.next + 1)
    ELSE ParseFailed

\* the members of an object from position i on, after the members `acc`
ParseMembers(toks, i, acc) ==
    IF i + 1 > Len(toks) \/ toks[i].tok # "str" \/ toks[i + 1].tok # ":"
    THEN ParseFailed
    ELSE ParseMember(toks, toks[i].val[1], ParseValue(toks, i + 2), acc)

\* the text is a value when the parser has read all of it
Complete(parsed, len) ==
    IF parsed.ok /\ parsed.next = len + 1 THEN <<parsed.tree>> ELSE <<>>

\* JSON.parse(text): <<tree>>, or <<>> when it throws a SyntaxError; the
\* whole text has to be one value
JsonParse(toks) == Complete(ParseValue(toks, 1), Len(toks))

\* the property `name` of an object
Field(tree, name) == tree.m[CHOOSE i \in DOMAIN tree.m : tree.m[i].k = name].v

\* a parsed Record<string, string> read as package name -> range
AsRangeMap(tree) ==
    [i \in DOMAIN tree.m |-> [k |-> tree.m[i].k, v |-> tree.m[i].v.m[1]]]

\* a parsed object read as a LockfileEntry
AsEntry(tree) ==
    [version |-> Field(tree, "version").m[1],
     resolved |-> Field(tree, "resolved").m[1],
     dependencies |-> AsRangeMap(Field(tree, "dependencies")),
     devDependencies |-> AsRangeMap(Field(tree, "devDependencies"))]

\* JSON.parse(content) as JellyLockfile
AsLockfile(tree) ==
    [lockfileVersion |-> Field(tree, "lockfileVersion").m[1],
     packages |-> [i \in DOMAIN Field(tree, "packages").m |->
                      [k |-> Field(tree, "packages").m[i].k,
                       v |-> AsEntry(Field(tree, "packages").m[i].v)]],
     dependencies |-> AsRangeMap(Field(tree, "dependencies")),
     devDependencies |-> AsRangeMap(Field(tree, "devDependencies"))]

\* the content of a file that holds `text`
Content(parsed) == IF parsed = <<>> THEN Malformed ELSE AsLockfile(parsed[1])

FileOf(text) == Content(JsonParse(text))

\* writeLockfile(lockfile): the file afterwards
writeLockfile(lf) == <<FileOf(Stringify(lf))>>

-----------------------------------------------------------------------------
(* PackageDownloader *)

\* `${scope}_${name}`
DirName(pkg) == pkg.scope \o pkg.name

\* What a package directory holds: the archive it was last extracted from
\* (files) and whether the tree is still as extracted, wally.toml included
\* (raw).  Nothing reads the downloaded zip, which is left out.
EmptyDir == [files |-> <<>>, raw |-> FALSE]

SetDir(dirs, d, content) ==
    [x \in (DOMAIN dirs) \cup {d} |-> IF x = d THEN content ELSE dirs[x]]

RemoveDirs(dirs, gone) == [x \in (DOMAIN dirs) \ gone |-> dirs[x]]

NoDirs == [x \in {} |-> EmptyDir]

NoFault == [pkg |-> PA, stage |-> "none"]

FaultStages == {"download", "process"}

Faults == {NoFault} \cup {[pkg |-> PA, stage |-> st] : st \in FaultStages}

StageOf(fault, pkg) == IF fault.pkg = pkg THEN fault.stage ELSE "none"

\* The body of downloadPackage and of downloadFromLockfile: fetch the archive
\* at `url` into Packages/{scope}_{name}, extract it there, process it
\* (processExtractedPackage is called whatever jelly.json says), and remove
\* the zip.  ok is FALSE when the call throws, and `failedAt` tells
\* where: at the fetch ("download") or in processExtractedPackage ("process").
download(root, url, fault) ==
    LET d == DirName(url.pkg)
        before == IF d \in DOMAIN root THEN root[d] ELSE EmptyDir
        stage == StageOf(fault, url.pkg)
        fetched == url.version \in Versions(url.pkg) /\ stage # "download"
    IN  IF ~fetched
        THEN [ok |-> FALSE, failedAt |-> "download", root |-> SetDir(root, d, before)]
        ELSE IF stage = "process"
        THEN [ok |-> FALSE, failedAt |-> "process",
              root |-> SetDir(root, d, [files |-> <<url>>, raw |-> TRUE])]
        ELSE [ok |-> TRUE, failedAt |-> "none",
              root |-> SetDir(root, d, [files |-> <<url>>, raw |-> FALSE])]

\* the position of a directory name in a sorted listing
DirRank(d) ==
    CASE d[1] = "a" -> 1 [] d[1] = "b" -> 2 [] d[1] = "c" -> 3 [] OTHER -> 4

RECURSIVE Listing(_)
\* fs.readdir: the names of S, sorted (the scandir of libuv sorts them)
Listing(S) ==
    IF S = {} THEN <<>>
    ELSE LET first == CHOOSE d \in S : \A e \in S : DirRank(d) <= DirRank(e)
         IN  <<first>> \o Listing(S \ {first})

\* item.split('_', 2)
ParseDir(item) == [scope |-> item[1], name |-> item[2]]

RECURSIVE AddRootItems(_, _)
AddRootItems(packages, items) ==
    IF items = <<>> THEN packages
    ELSE LET p == ParseDir(Head(items))
             existingPackage == \E i \in DOMAIN packages : packages[i] = p
         IN  AddRootItems(IF existingPackage THEN packages ELSE Append(packages, p),
                          Tail(items))

\* getInstalledPackages(): the directories with a '_' in their name, those of
\* _Index first, then those of Packages not already found in _Index
getInstalledPackages(w) ==
    IF ~w.packagesDir THEN <<>>
    ELSE LET indexItems ==
                 IF w.indexExists
                 THEN SelectSeq(Listing(DOMAIN w.indexDirs), LAMBDA d : Len(d) >= 2)
                 ELSE <<>>
             rootItems == SelectSeq(Listing(DOMAIN w.rootDirs), LAMBDA d : Len(d) >= 2)
         IN  AddRootItems([i \in DOMAIN indexItems |-> ParseDir(indexItems[i])],
                          rootItems)

\* readVersionFromPackageFiles: wally.toml is there while the tree is raw
readVersionFromPackageFiles(content) ==
    IF content.raw /\ content.files # <<>> THEN <<content.files[1].version>> ELSE <<>>

\* extractVersionFromPackageDir (no directory name of the model has an '@')
extractVersionFromPackageDir(packageDir, w) ==
    IF packageDir \in DOMAIN w.indexDirs
    THEN readVersionFromPackageFiles(w.indexDirs[packageDir])
    ELSE IF packageDir \in DOMAIN w.rootDirs
    THEN readVersionFromPackageFiles(w.rootDirs[packageDir])
    ELSE <<>>

\* PackageDownloader.getLatestVersion: the first of the list sorted with the
\* entries without a version first, then by descending version (stable sort)
PD_getLatestVersion(group) ==
    LET unknown == {i \in DOMAIN group : group[i].version = <<>>}
        best == {i \in DOMAIN group :
                    \A j \in DOMAIN group : VGe(group[i].version[1], group[j].version[1])}
        pick == IF unknown # {} THEN unknown ELSE best
    IN  IF Len(group) = 1 THEN group[1]
        ELSE group[CHOOSE i \in pick : \A j \in pick : i <= j]

\* the alias file `${name}.lua`, or `${name}_${version|unknown}.lua`
Alias(name, versioned, version) ==
    [name |-> name, versioned |-> versioned, version |-> version]

\* the first loop of generatePackageIndex: every installed package with its
\* directory name and the version found in it
packageEntries(packages, w) ==
    [i \in DOMAIN packages |->
        [scope |-> packages[i].scope, name |-> packages[i].name,
         packageDir |-> <<packages[i].scope, packages[i].name>>,
         version |-> extractVersionFromPackageDir(
                         <<packages[i].scope, packages[i].name>>, w)]]

\* the second loop of generatePackageIndex: the alias files are written anew
\* and the directories still in Packages move to _Index, unless _Index has
\* a directory of that name
writeAliases(w, entries) ==
    LET Group(n) == SelectSeq(entries, LAMBDA e : e.name = n)
        multiple == {j \in DOMAIN entries : Len(Group(entries[j].name)) > 1}
        aliases ==
            {Alias(entries[i].name, FALSE, <<>>) : i \in DOMAIN entries}
            \cup {Alias(entries[i].name, TRUE, entries[i].version) : i \in multiple}
        Last(g, version) ==
            g[CHOOSE i \in DOMAIN g :
                  /\ g[i].version = version
                  /\ \A j \in DOMAIN g : g[j].version = version => j <= i]
        Target(a) ==
            IF a.versioned THEN Last(Group(a.name), a.version).packageDir
            ELSE PD_getLatestVersion(Group(a.name)).packageDir
        moved == {entries[i].packageDir : i \in DOMAIN entries}
                 \cap ((DOMAIN w.rootDirs) \ (DOMAIN w.indexDirs))
    IN  [w EXCEPT !.packagesDir = TRUE,
                  !.indexExists = TRUE,
                  !.rootDirs = [d \in (DOMAIN @) \ moved |-> @[d]],
                  !.indexDirs = [d \in (DOMAIN @) \cup moved |->
                                    IF d \in moved THEN w.rootDirs[d] ELSE @[d]],
                  !.shims = [a \in aliases |-> Target(a)]]

\* generatePackageIndex(): the world afterwards
generatePackageIndex(w) ==
    writeAliases(w, packageEntries(getInstalledPackages(w), w))

NoShims == [a \in {} |-> <<>>]

-----------------------------------------------------------------------------
(* ProjectManager *)

\* addDependency(packageName, version, isDev)
addDependency(config, pkg, version, isDev) ==
    IF isDev
    THEN [config EXCEPT !.devDependencies = Put(@, pkg, version)]
    ELSE [config EXCEPT !.dependencies = Put(@, pkg, version)]

\* removeDependency(packageName)
removeDependency(config, pkg) ==
    [config EXCEPT !.dependencies = Del(@, pkg), !.devDependencies = Del(@, pkg)]

\* the `jelly` section of jelly.json
JellyOptions(cleanup, optimize) == [cleanup |-> cleanup, optimize |-> optimize]

\* createJellyConfig(options)
createJellyConfig ==
    [dependencies |-> <<>>, devDependencies |-> <<>>, serverDependencies |-> <<>>,
     jelly |-> JellyOptions(TRUE, TRUE)]

-----------------------------------------------------------------------------
(* JellyManager.  An operation is a run over the files of the project: the  *)
(* run record holds the files (w), whether no call has thrown yet (ok), the *)
(* archives asked of the registry (fetched), those downloaded and processed *)
(* (installed), whether jelly-lock.json was written, whether clean()        *)
(* looked for unused packages, and the steps of the run in their order: the *)
(* end of each package's download pipeline, generatePackageIndex ("index")  *)
(* and the removal pass of clean() ("prune").  A step of a run that has     *)
(* thrown does nothing: the exception has left the try block.               *)

World == [manifestExists |-> manifestExists, manifest |-> manifest,
          rojoExists |-> rojoExists, lockfile |-> lockfile,
          packagesDir |-> packagesDir, rootDirs |-> rootDirs,
          indexExists |-> indexExists, indexDirs |-> indexDirs, shims |-> shims]

Start(w) ==
    [w |-> w, ok |-> TRUE, fetched |-> {}, installed |-> {},
     lockWritten |-> FALSE, pruned |-> FALSE, steps |-> <<>>]

\* a step of a run: how the pipeline of the package at `url` ended
\* ("installed", "download" or "process" for where it threw)
PipelineStep(url, one) ==
    [step |-> IF one.ok THEN "installed" ELSE one.failedAt, url |-> <<url>>]

\* a step of a run that concerns no single package
PassStep(name) == [step |-> name, url |-> <<>>]

\* the report of an operation: how it returned and what its run did
Report(op, result, r) ==
    [op |-> op, result |-> result, fetched |-> r.fetched, installed |-> r.installed,
     lockWritten |-> r.lockWritten, pruned |-> r.pruned, steps |-> r.steps]

\* the operation returns at once, with the spinner showing `result`
Return(op, result, w) == [w |-> w, report |-> Report(op, result, Start(w))]

\* the operation ends: spinner.succeed, or spinner.fail and the rethrow
Finish(op, r) ==
    [w |-> r.w, report |-> Report(op, IF r.ok THEN "success" ELSE "failed", r)]

RECURSIVE addAll(_, _, _)
\* the first loop of install(): resolve a missing version with '*', then
\* addDependency
addAll(r, specs, isDev) ==
    IF specs = <<>> \/ ~r.ok THEN r
    ELSE LET pkg == Head(specs).pkg
             latest == resolveVersion(pkg, AnyVersion)
             version == IF Head(specs).range # <<>> THEN Head(specs).range
                        ELSE IF latest = <<>> THEN <<>> ELSE <<Exact(latest[1])>>
         IN  IF version = <<>> \/ ~r.w.manifestExists
             THEN [r EXCEPT !.ok = FALSE]
             ELSE addAll([r EXCEPT !.w.manifest = addDependency(@, pkg, version[1], isDev)],
                         Tail(specs), isDev)

\* lockfileManager.updateLockfile(config), then writeLockfile(lockfile).
\* JellyManager names the result { lockfile, conflicts }; the LockfileManager
\* of the sources returns the lockfile itself and reports no conflicts, so
\* `lockfile` is what the call returns and displayVersionConflicts never runs.
lockUpdated(r) ==
    IF ~r.ok THEN r
    ELSE [r EXCEPT !.w.lockfile = writeLockfile(updateLockfile(r.w.manifest, r.w.lockfile)),
                   !.lockWritten = TRUE]

RECURSIVE downloadAll(_, _, _, _)
\* the loop `for (entry of Object.entries(lockfile.packages)) download...`;
\* with stopOnThrow the first throw ends the run (no try/catch in the loop)
downloadAll(r, entries, fault, stopOnThrow) ==
    IF entries = <<>> \/ ~r.ok THEN r
    ELSE LET url == Head(entries).v.resolved
             one == download(r.w.rootDirs, url, fault)
         IN  downloadAll([r EXCEPT !.w.packagesDir = TRUE,
                                   !.w.rootDirs = one.root,
                                   !.fetched = @ \cup {url},
                                   !.installed = IF one.ok THEN @ \cup {url} ELSE @,
                                   !.steps = Append(@, PipelineStep(url, one)),
                                   !.ok = one.ok \/ ~stopOnThrow],
                         Tail(entries), fault, stopOnThrow)

\* the download loop over the packages of the lockfile just written or read
downloadLocked(r, fault, stopOnThrow) ==
    IF ~r.ok THEN r
    ELSE downloadAll(r, r.w.lockfile[1].packages, fault, stopOnThrow)

\* packageDownloader.generatePackageIndex()
indexed(r) ==
    IF ~r.ok THEN r
    ELSE [r EXCEPT !.w = generatePackageIndex(r.w),
                   !.steps = Append(@, PassStep("index"))]

\* packageDownloader.updateProjectFile(): readProject() throws without a
\* Rojo project file
projectUpdated(r) == IF ~r.ok THEN r ELSE [r EXCEPT !.ok = r.w.rojoExists]

\* JellyManager.install(packages, options), which is also add
install(w, specs, isDev, fault) ==
    Finish("add",
           projectUpdated(indexed(downloadLocked(
               lockUpdated(addAll(Start(w), specs, isDev)), fault, TRUE))))

\* installAll(): the lockfile is generated and written when there is none or
\* validateLockfile() says no, then read
lockEnsured(r) ==
    IF r.w.lockfile = <<>> \/ ~validateLockfile(r.w.manifest, r.w.lockfile)
    THEN [r EXCEPT !.w.lockfile = writeLockfile(generateLockfile(r.w.manifest)),
                   !.lockWritten = TRUE]
    ELSE [r EXCEPT !.ok = readLockfile(r.w.lockfile) # <<>>]

\* JellyManager.installAll()
installAll(w, fault) ==
    IF ~w.manifestExists THEN Return("installAll", "failed", w)
    ELSE IF Spread(w.manifest.dependencies, w.manifest.devDependencies) = <<>>
    THEN Return("installAll", "info", w)
    ELSE Finish("installAll",
                projectUpdated(indexed(downloadLocked(lockEnsured(Start(w)),
                                                      fault, FALSE))))

\* how clean() returns
cleanResult(w) ==
    IF ~w.manifestExists THEN "failed"
    ELSE IF ~w.packagesDir THEN "info"
    ELSE "success"

\* JellyManager.clean()
clean(r) ==
    LET w == r.w
        allDeps == Spread(Spread(w.manifest.dependencies, w.manifest.devDependencies),
                          w.manifest.serverDependencies)
        expectedPackages == {DirName(p) : p \in Keys(allDeps)}
                            \cup {p.name : p \in Keys(allDeps)}
        indexPackages == IF w.indexExists THEN DOMAIN w.indexDirs ELSE {}
        unusedPackages == (indexPackages \cup DOMAIN w.rootDirs) \ expectedPackages
        \* an alias `x_unknown` or `x_1_4_3` is the leaf name of no package
        unusedAliases == {a \in DOMAIN w.shims :
                            a.versioned \/ ~\E p \in Keys(allDeps) : p.name = <<a.name>>}
        Removed(unusedP, unusedA) ==
            IF unusedP = {} /\ unusedA = {}
            THEN [r EXCEPT !.pruned = TRUE, !.steps = Append(@, PassStep("prune"))]
            ELSE [r EXCEPT !.pruned = TRUE,
                           !.steps = @ \o <<PassStep("prune"), PassStep("index")>>,
                           !.w = generatePackageIndex(
                                     [w EXCEPT !.indexDirs = RemoveDirs(@, unusedP),
                                               !.rootDirs = RemoveDirs(@, unusedP),
                                               !.shims = [a \in (DOMAIN @) \ unusedA |-> @[a]]])]
    IN  IF ~r.ok \/ cleanResult(w) # "success" THEN r
        ELSE Removed(unusedPackages, unusedAliases)

RECURSIVE removeAll(_, _)
\* the loop of remove() over its packages
removeAll(r, pkgs) ==
    IF pkgs = <<>> \/ ~r.ok THEN r
    ELSE IF ~r.w.manifestExists THEN [r EXCEPT !.ok = FALSE]
    ELSE removeAll([r EXCEPT !.w.manifest = removeDependency(@, Head(pkgs))], Tail(pkgs))

\* readJellyConfig() throws without a jelly.json
configRead(r) == IF ~r.ok THEN r ELSE [r EXCEPT !.ok = r.w.manifestExists]

\* JellyManager.remove(packages)
remove(w, pkgs) ==
    Finish("remove", clean(lockUpdated(configRead(removeAll(Start(w), pkgs)))))

RECURSIVE updateEach(_, _, _, _)
\* the loop of update() over packagesToUpdate; config is the one read before
\* the loop
updateEach(r, config, names, fault) ==
    IF names = <<>> THEN r
    ELSE
      LET pkg == Head(names)
          allDeps == Spread(config.dependencies, config.devDependencies)
          latestVersion == getLatestVersion(pkg)
          skip == \/ ~Has(allDeps, pkg)
                  \/ latestVersion = <<>>
                  \/ Get(allDeps, pkg) = Exact(latestVersion[1])
          url == ResolvedUrl(pkg, latestVersion[1])
          one == download(r.w.rootDirs, url, fault)
      IN
      IF skip THEN updateEach(r, config, Tail(names), fault)
      ELSE updateEach(
               [r EXCEPT !.w.manifest = addDependency(@, pkg, Exact(latestVersion[1]),
                                                      Has(config.devDependencies, pkg)),
                         !.w.packagesDir = TRUE,
                         !.w.rootDirs = one.root,
                         !.fetched = @ \cup {url},
                         !.installed = IF one.ok THEN @ \cup {url} ELSE @,
                         !.steps = Append(@, PipelineStep(url, one))],
               config, Tail(names), fault)

\* the end of update(): the index and the project file when a package was
\* updated
updateFinished(r) ==
    IF r.installed # {} THEN Finish("update", projectUpdated(indexed(r)))
    ELSE Finish("update", r)

\* JellyManager.update(packages): packages = <<>> stands for undefined
update(w, pkgs, fault) ==
    LET allDeps == Spread(w.manifest.dependencies, w.manifest.devDependencies)
        outdated == SelectSeq(KeySeq(allDeps),
                        LAMBDA p : /\ getLatestVersion(p) # <<>>
                                   /\ Get(allDeps, p) # Exact(getLatestVersion(p)[1]))
    IN  IF ~w.manifestExists THEN Return("update", "failed", w)
        ELSE IF allDeps = <<>> THEN Return("update", "info", w)
        ELSE IF pkgs # <<>>
        THEN updateFinished(updateEach(Start(w), w.manifest, pkgs, fault))
        ELSE IF outdated = <<>> THEN Return("update", "success", w)
        ELSE updateFinished(updateEach(Start(w), w.manifest, outdated, fault))

\* JellyManager.regenerateLockfile()
regenerateLockfile(w) ==
    IF ~w.manifestExists THEN Return("regenerateLockfile", "failed", w)
    ELSE Finish("regenerateLockfile",
                [Start(w) EXCEPT !.w.lockfile = writeLockfile(generateLockfile(w.manifest)),
                                 !.lockWritten = TRUE])

\* JellyManager.init(options)
init(w) ==
    IF w.manifestExists THEN Return("init", "warn", w)
    ELSE Return("init", "success",
                [w EXCEPT !.manifestExists = TRUE, !.manifest = createJellyConfig])

-----------------------------------------------------------------------------
(* The specification of the engine *)

\* what `jelly add` / `jelly install <packages>` is given: a package and,
\* unless <<>>, the range after the '@'
Spec_(pkg, range) == [pkg |-> pkg, range |-> range]

\* the command lines of add: the package spec and whether --dev is given
AddSpecs ==
    { Spec_(PA, <<Exact(<<1, 2, 0>>)>>), Spec_(PA, <<>>),
      Spec_(PA, <<AtLeast(<<1, 4, 0>>)>>),
      Spec_(PB, <<Exact(<<1, 0, 0>>)>>), Spec_(PB, <<>>),
      Spec_(PC, <<Exact(<<1, 0, 0>>)>>),
      Spec_(PD, <<Caret(<<0, 1, 0>>)>>) } \X {FALSE}
    \cup { Spec_(PA, <<Exact(<<1, 2, 0>>)>>), Spec_(PD, <<Caret(<<0, 1, 0>>)>>) } \X {TRUE}

\* the package lists update is given; <<>> for none
UpdateArgs == {<<>>, <<PA>>}

\* the number of engine operations a behaviour runs
MaxOps == 3

RegLevels == {0, 1}

\* an engine operation may run, with this fault
MayRun(fault) ==
    /\ opCount < MaxOps
    /\ fault # NoFault => ~faulted

\* the files and the report an operation leaves
Apply(out, fault) ==
    /\ opCount' = opCount + 1
    /\ faulted' = (faulted \/ fault # NoFault)
    /\ manifestExists' = out.w.manifestExists
    /\ manifest' = out.w.manifest
    /\ rojoExists' = out.w.rojoExists
    /\ lockfile' = out.w.lockfile
    /\ packagesDir' = out.w.packagesDir
    /\ rootDirs' = out.w.rootDirs
    /\ indexExists' = out.w.indexExists
    /\ indexDirs' = out.w.indexDirs
    /\ shims' = out.w.shims
    /\ lastOp' = out.report
    /\ UNCHANGED <<regLevel, analysisVars>>

NoOp == Report("none", "none", Start(World))

Init ==
    /\ regLevel = 0
    /\ opCount = 0
    /\ faulted = FALSE
    /\ manifestExists \in BOOLEAN
    /\ manifest = createJellyConfig
    /\ rojoExists \in BOOLEAN
    /\ lockfile = <<>>
    /\ packagesDir = FALSE
    /\ rootDirs = NoDirs
    /\ indexExists = FALSE
    /\ indexDirs = NoDirs
    /\ shims = NoShims
    /\ lastOp = NoOp
    /\ resolution = <<>>
    /\ firstPicks = <<>>
    /\ walk = NoWalk

\* jelly init
InitProject ==
    /\ MayRun(NoFault)
    /\ Apply(init(World), NoFault)

\* jelly add <package>, jelly install <package>
Add ==
    \E cmd \in AddSpecs, fault \in Faults :
        /\ MayRun(fault)
        /\ Apply(install(World, <<cmd[1]>>, cmd[2], fault), fault)

\* jelly install
InstallAll ==
    \E fault \in Faults :
        /\ MayRun(fault)
        /\ Apply(installAll(World, fault), fault)

\* jelly remove <package>
Remove ==
    \E pkg \in Packages :
        /\ MayRun(NoFault)
        /\ Apply(remove(World, <<pkg>>), NoFault)

\* jelly update [package]
Update ==
    \E pkgs \in UpdateArgs, fault \in Faults :
        /\ MayRun(fault)
        /\ Apply(update(World, pkgs, fault), fault)

\* jelly clean
Clean ==
    /\ MayRun(NoFault)
    /\ Apply([w |-> clean(Start(World)).w,
              report |-> Report("clean", cleanResult(World), clean(Start(World)))],
             NoFault)

\* jelly lockfile --regenerate
RegenerateLock ==
    /\ MayRun(NoFault)
    /\ Apply(regenerateLockfile(World), NoFault)

\* the registry publishes the versions of the next level
Publish ==
    /\ regLevel + 1 \in RegLevels
    /\ regLevel' = regLevel + 1
    /\ lastOp' = Report("publish", "none", Start(World))
    /\ UNCHANGED <<opCount, faulted, manifestExists, manifest, rojoExists, lockfile, diskVars,
                   analysisVars>>

Next ==
    \/ InitProject
    \/ Add
    \/ InstallAll
    \/ Remove
    \/ Update
    \/ Clean
    \/ RegenerateLock
    \/ Publish

Spec == Init /\ [][Next]_vars

-----------------------------------------------------------------------------
(* The specification of the resolution: `jelly analyze` and the lockfile  *)
(* generation on a project with a manifest whose dependency entries the  *)
(* user writes in any order                                              *)

\* JellyManager.analyzeDependencies(): <<>> when it returns before resolving
analyzeDependencies(w) ==
    LET allDeps == Spread(w.manifest.dependencies, w.manifest.devDependencies)
    IN  IF ~w.manifestExists THEN [result |-> "failed", resolution |-> <<>>]
        ELSE IF allDeps = <<>> THEN [result |-> "info", resolution |-> <<>>]
        ELSE [result |-> "success", resolution |-> <<resolveTree(allDeps)>>]

\* the entries a manifest of this specification is written from
DirectEntries ==
    { Dep(PA, Caret(<<1, 2, 0>>)), Dep(PA, Tilde(<<1, 4, 0>>)),
      Dep(PA, Exact(<<1, 2, 0>>)), Dep(PA, Exact(<<9, 9, 9>>)),
      Dep(PA, AtLeast(<<1, 4, 0>>)), Dep(PA, AnyVersion),
      Dep(PB, Caret(<<2, 0, 0>>)), Dep(PB, Caret(<<1, 0, 0>>)),
      Dep(PC, Exact(<<1, 0, 0>>)), Dep(PD, Caret(<<0, 1, 0>>)) }

\* the number of entries of such a manifest
MaxDirect == 2

\* the picks of a resolution, as a set of <<package, version>>
Picks(tree) == {<<tree[i].k, tree[i].v>> : i \in DOMAIN tree}

\* m2 holds the entries of m1, in any order
Reordered(m1, m2) ==
    /\ Len(m1) = Len(m2)
    /\ \E f \in [DOMAIN m1 -> DOMAIN m1] :
          /\ \A i, j \in DOMAIN m1 : i # j => f[i] # f[j]
          /\ \A i \in DOMAIN m1 : m2[i] = m1[f[i]]

InitResolve ==
    /\ regLevel \in RegLevels
    /\ opCount = 0
    /\ faulted = FALSE
    /\ manifestExists = TRUE
    /\ \E n \in 0..MaxDirect : \E deps \in [1..n -> DirectEntries] :
          /\ IsMap(deps)
          /\ manifest = [createJellyConfig EXCEPT !.dependencies = deps]
    /\ rojoExists = TRUE
    /\ lockfile = <<>>
    /\ packagesDir = FALSE
    /\ rootDirs = NoDirs
    /\ indexExists = FALSE
    /\ indexDirs = NoDirs
    /\ shims = NoShims
    /\ lastOp = NoOp
    /\ resolution = <<>>
    /\ firstPicks = <<>>
    /\ walk = NoWalk

\* jelly analyze
Analyze ==
    LET a == analyzeDependencies(World)
    IN  /\ resolution' = a.resolution
        /\ firstPicks' = IF firstPicks = <<>> /\ a.resolution # <<>>
                         THEN <<Picks(a.resolution[1].tree)>>
                         ELSE firstPicks
        /\ lastOp' = Report("analyze", a.result, Start(World))
        /\ UNCHANGED <<regLevel, opCount, faulted, manifestExists, manifest, rojoExists,
                       lockfile, diskVars, walk>>

\* the user writes the dependency entries of jelly.json in another order
Reorder ==
    /\ \E deps \in [DOMAIN manifest.dependencies -> DirectEntries] :
          /\ Reordered(manifest.dependencies, deps)
          /\ deps # manifest.dependencies
          /\ manifest' = [manifest EXCEPT !.dependencies = deps]
    /\ resolution' = <<>>
    /\ lastOp' = Report("edit", "none", Start(World))
    /\ UNCHANGED <<regLevel, opCount, faulted, manifestExists, rojoExists, lockfile,
                   diskVars, firstPicks, walk>>

\* what a call of the lockfile manager returned
Call(op, returned) == [op |-> op, result |-> "none", returned |-> returned]

\* jelly lockfile --regenerate on this project: generateLockfile(config),
\* then writeLockfile(lockfile)
GenerateLock ==
    /\ lockfile' = writeLockfile(generateLockfile(manifest))
    /\ lastOp' = Call("generateLockfile", <<generateLockfile(manifest)>>)
    /\ UNCHANGED <<regLevel, opCount, faulted, manifestExists, manifest, rojoExists,
                   diskVars, analysisVars>>

NextResolve ==
    \/ Analyze
    \/ Reorder
    \/ GenerateLock

SpecResolve == InitResolve /\ [][NextResolve]_vars

-----------------------------------------------------------------------------
(* The specification of the lockfile manager: its calls on a project whose *)
(* jelly.json and jelly-lock.json are also edited from outside             *)

\* the lockfile holds a lockfile object, of whatever version
IsLockfile(file) == file # <<>> /\ file[1] # Malformed

\* updateLockfile(config), then writeLockfile(lockfile)
UpdateLock ==
    /\ lockfile' = writeLockfile(updateLockfile(manifest, lockfile))
    /\ lastOp' = Call("updateLockfile", <<updateLockfile(manifest, lockfile)>>)
    /\ UNCHANGED <<regLevel, opCount, faulted, manifestExists, manifest, rojoExists,
                   diskVars, analysisVars>>

\* validateLockfile(config)
ValidateLock ==
    /\ lastOp' = Call("validateLockfile", <<validateLockfile(manifest, lockfile)>>)
    /\ UNCHANGED <<regLevel, opCount, faulted, manifestExists, manifest, rojoExists,
                   lockfile, diskVars, analysisVars>>

\* readLockfile()
ReadLock ==
    /\ lastOp' = Call("readLockfile", readLockfile(lockfile))
    /\ UNCHANGED <<regLevel, opCount, faulted, manifestExists, manifest, rojoExists,
                   lockfile, diskVars, analysisVars>>

\* deleteLockfile()
DeleteLock ==
    /\ lockfile # <<>>
    /\ lockfile' = <<>>
    /\ lastOp' = Call("deleteLockfile", <<>>)
    /\ UNCHANGED <<regLevel, opCount, faulted, manifestExists, manifest, rojoExists,
                   diskVars, analysisVars>>

\* the file is cut short (a write that did not finish): it holds the first
\* n tokens of its text
Truncate ==
    /\ IsLockfile(lockfile)
    /\ \E n \in 0..(Len(Stringify(lockfile[1])) - 1) :
          lockfile' = <<FileOf(SubSeq(Stringify(lockfile[1]), 1, n))>>
    /\ lastOp' = Call("truncate", <<>>)
    /\ UNCHANGED <<regLevel, opCount, faulted, manifestExists, manifest, rojoExists,
                   diskVars, analysisVars>>

\* the lockfile versions a file may carry
LockfileVersions == {1, 2}

\* the file is one of another lockfile format
OtherVersion ==
    /\ IsLockfile(lockfile)
    /\ \E n \in LockfileVersions \ {lockfile[1].lockfileVersion} :
          lockfile' = <<FileOf(Stringify([lockfile[1] EXCEPT !.lockfileVersion = n]))>>
    /\ lastOp' = Call("otherVersion", <<>>)
    /\ UNCHANGED <<regLevel, opCount, faulted, manifestExists, manifest, rojoExists,
                   diskVars, analysisVars>>

\* the user adds a dependency entry to jelly.json
AddEntry ==
    /\ Len(manifest.dependencies) < MaxDirect
    /\ \E e \in DirectEntries :
          /\ ~Has(manifest.dependencies, e.k)
          /\ manifest' = [manifest EXCEPT !.dependencies = Append(@, e)]
    /\ lastOp' = Call("edit", <<>>)
    /\ UNCHANGED <<regLevel, opCount, faulted, manifestExists, rojoExists, lockfile,
                   diskVars, analysisVars>>

NextLockfile ==
    \/ GenerateLock
    \/ UpdateLock
    \/ ValidateLock
    \/ ReadLock
    \/ DeleteLock
    \/ Truncate
    \/ OtherVersion
    \/ AddEntry
    \/ Reorder

SpecLockfile == InitResolve /\ [][NextLockfile]_vars

-----------------------------------------------------------------------------
(* The specification of a resolution in progress: the call of              *)
(* resolveDependencyTree on the manifest's dependencies as the steps of its *)
(* loop, one frame per nested call, over registries with and without a     *)
(* cycle, next to the lockfile generation on the same project              *)

\* the registry levels of this specification; level 2 holds the cycle
WalkLevels == {0, 1, 2}

\* the frames a call may nest (a frame per package, one for the root call,
\* and one to spare)
MaxDepth == 6

\* the frame of a call resolveDependencyTree(dependencies, ..., parentChain):
\* the entries its loop has still to take and its local `conflicts`
Frame(dependencies, parentChain) ==
    [dependencies |-> dependencies, parentChain |-> parentChain, conflicts |-> <<>>]

\* the frame of the innermost call
Top(w) == w.stack[Len(w.stack)]

\* a visited.has(packageName) that never finds the package
hasVisitedNever(visited, pkg) == FALSE

\* visited.has(packageName)
hasVisited(visited, pkg) == pkg \in visited

\* the loop of the innermost call goes on to its next entry, with `conflicts`
\* as its local list
Continue(w, conflicts) ==
    [w EXCEPT !.stack[Len(w.stack)].dependencies = Tail(@),
              !.stack[Len(w.stack)].conflicts = conflicts]

\* this.packageCache.get(packageName), and on a miss WallyAPI.getPackageInfo
\* and packageCache.set: a request is made, and its answer is kept unless the
\* request throws (404)
cached(w, pkg) ==
    IF pkg \in w.cache THEN w
    ELSE [w EXCEPT !.requests = Append(@, pkg),
                   !.cache = IF getPackageInfo(pkg) # <<>> THEN @ \cup {pkg} ELSE @]

\* the entry of a package already visited: the conflict check, then continue
revisited(w) ==
    LET pkg == Head(Top(w).dependencies).k
        versionRange == Head(Top(w).dependencies).v
        clash == /\ Has(w.tree, pkg)
                 /\ ~isVersionCompatible(Get(w.tree, pkg), versionRange)
    IN  Continue(w, IF clash
                    THEN AddConflict(Top(w).conflicts, pkg, Get(w.tree, pkg),
                                     Top(w).parentChain, versionRange)
                    ELSE Top(w).conflicts)

\* the entry of a package not yet visited: visited.add, resolveVersion, the
\* dependencyTree and, for a version with sub-dependencies, the nested call
resolvedEntry(w) ==
    LET pkg == Head(Top(w).dependencies).k
        versionRange == Head(Top(w).dependencies).v
        w1 == cached([w EXCEPT !.visited = @ \cup {pkg}], pkg)
        resolved == resolveVersion(pkg, versionRange)
        differs == Has(w.tree, pkg) /\ Get(w.tree, pkg) # resolved[1]
        compatible == IF differs
                      THEN findCompatibleVersion(pkg,
                               {versionRange, getVersionRange(Get(w.tree, pkg))})
                      ELSE <<>>
        tree1 == IF ~differs THEN Put(w.tree, pkg, resolved[1])
                 ELSE IF compatible # <<>> THEN Put(w.tree, pkg, compatible[1])
                 ELSE w.tree
        conflicts1 == IF differs /\ compatible = <<>>
                      THEN AddConflict(Top(w).conflicts, pkg, Get(w.tree, pkg),
                                       Top(w).parentChain, versionRange)
                      ELSE Top(w).conflicts
        versionInfo == VersionInfo(pkg, resolved[1])
        subDeps == Spread(versionInfo.dependencies, versionInfo.serverDependencies)
        w2 == [Continue(w1, conflicts1) EXCEPT !.tree = tree1]
    IN  IF resolved = <<>> THEN Continue(w1, Top(w).conflicts)
        ELSE IF subDeps = <<>> THEN w2
        ELSE [w2 EXCEPT !.stack = Append(@, Frame(subDeps,
                                                  Append(Top(w).parentChain, pkg)))]

\* the loop of the innermost call is over: it returns its conflicts, which
\* the caller pushes onto its own; the outermost call returns the result
returned(w) ==
    IF Len(w.stack) = 1
    THEN [w EXCEPT !.status = "done", !.stack = <<>>, !.conflicts = Top(w).conflicts]
    ELSE [w EXCEPT !.stack = [SubSeq(@, 1, Len(@) - 1)
                                 EXCEPT ![Len(w.stack) - 1].conflicts =
                                            @ \o Top(w).conflicts]]

InitWalk ==
    /\ regLevel \in WalkLevels
    /\ opCount = 0
    /\ faulted = FALSE
    /\ manifestExists = TRUE
    /\ \E n \in 0..MaxDirect : \E deps \in [1..n -> DirectEntries] :
          /\ IsMap(deps)
          /\ manifest = [createJellyConfig EXCEPT !.dependencies = deps]
    /\ rojoExists = TRUE
    /\ lockfile = <<>>
    /\ packagesDir = FALSE
    /\ rootDirs = NoDirs
    /\ indexExists = FALSE
    /\ indexDirs = NoDirs
    /\ shims = NoShims
    /\ lastOp = NoOp
    /\ resolution = <<>>
    /\ firstPicks = <<>>
    /\ walk = NoWalk

walkFrame == <<regLevel, opCount, faulted, manifestExists, manifest, rojoExists, lockfile,
               diskVars, lastOp, resolution, firstPicks>>

\* resolveDependencyTree(allDeps) is called
WalkCall ==
    /\ walk.status = "idle"
    /\ walk' = [NoWalk EXCEPT
                   !.status = "running",
                   !.stack = <<Frame(Spread(manifest.dependencies,
                                            manifest.devDependencies), <<>>)>>]
    /\ UNCHANGED walkFrame

\* the loop takes an entry whose package was visited
WalkRevisit ==
    /\ walk.status = "running"
    /\ Top(walk).dependencies # <<>>
    /\ hasVisited(walk.visited, Head(Top(walk).dependencies).k)
    /\ walk' = revisited(walk)
    /\ UNCHANGED walkFrame

\* the loop takes an entry whose package was not visited
WalkResolve ==
    /\ walk.status = "running"
    /\ Len(walk.stack) < MaxDepth
    /\ Top(walk).dependencies # <<>>
    /\ ~hasVisited(walk.visited, Head(Top(walk).dependencies).k)
    /\ walk' = resolvedEntry(walk)
    /\ UNCHANGED walkFrame

\* the innermost call returns
WalkReturn ==
    /\ walk.status = "running"
    /\ Top(walk).dependencies = <<>>
    /\ walk' = returned(walk)
    /\ UNCHANGED walkFrame

\* a step of the call in progress
WalkStep ==
    \/ WalkRevisit
    \/ WalkResolve
    \/ WalkReturn

NextWalk ==
    \/ WalkCall
    \/ WalkRevisit
    \/ WalkResolve
    \/ WalkReturn
    \/ GenerateLock

\* an awaited call goes on until it returns
SpecWalk == InitWalk /\ [][NextWalk]_vars /\ WF_vars(WalkStep)

-----------------------------------------------------------------------------
(* The specification of clean: `jelly clean`, run again and again, on a     *)
(* project whose manifest and Packages directory are in any state           *)

\* the directories Packages or Packages/_Index may hold at the start
MaxDisk == 2

\* the entries the manifest of this specification is written from
CleanEntries == {Dep(p, AnyVersion) : p \in Packages}

\* a package directory as an install left it: processed, or still as
\* extracted (raw)
Installed(d, raw) ==
    [files |-> <<ResolvedUrl(CHOOSE p \in Packages : DirName(p) = d, <<1, 0, 0>>)>>,
     raw |-> raw]

\* the alias files Packages may hold at the start
StartShims == {Alias("x", FALSE, <<>>), Alias("x", TRUE, <<>>)}

InitClean ==
    /\ regLevel = 0
    /\ opCount = 0
    /\ faulted = FALSE
    /\ manifestExists = TRUE
    /\ \E n \in 0..MaxDirect : \E deps \in [1..n -> CleanEntries], asServer \in BOOLEAN :
          /\ IsMap(deps)
          /\ asServer => n > 0
          /\ manifest = IF asServer
                        THEN [createJellyConfig EXCEPT
                                 !.dependencies = SubSeq(deps, 1, n - 1),
                                 !.serverDependencies = <<deps[n]>>]
                        ELSE [createJellyConfig EXCEPT !.dependencies = deps]
    /\ rojoExists = TRUE
    /\ lockfile = <<>>
    /\ packagesDir = TRUE
    /\ \E inRoot, inIndex \in SUBSET {DirName(p) : p \in Packages}, raw \in BOOLEAN :
          /\ Cardinality(inRoot) <= MaxDisk
          /\ Cardinality(inIndex) <= MaxDisk
          /\ rootDirs = [d \in inRoot |-> Installed(d, raw)]
          /\ indexDirs = [d \in inIndex |-> Installed(d, raw)]
          /\ indexExists = (inIndex # {})
    /\ \E files \in SUBSET StartShims : shims = [a \in files |-> <<"a", "x">>]
    /\ lastOp = NoOp
    /\ resolution = <<>>
    /\ firstPicks = <<>>
    /\ walk = NoWalk

NextClean ==
    \/ Clean

SpecClean == InitClean /\ [][NextClean]_vars

-----------------------------------------------------------------------------
(* The specification of the installer options: add and install on a        *)
(* project whose jelly.json sets jelly.cleanup and jelly.optimize as the    *)
(* user wrote them                                                         *)

InitOptions ==
    /\ regLevel = 0
    /\ opCount = 0
    /\ faulted = FALSE
    /\ manifestExists = TRUE
    /\ \E cleanup, optimize \in BOOLEAN :
          manifest = [createJellyConfig EXCEPT !.jelly = JellyOptions(cleanup, optimize)]
    /\ rojoExists = TRUE
    /\ lockfile = <<>>
    /\ packagesDir = FALSE
    /\ rootDirs = NoDirs
    /\ indexExists = FALSE
    /\ indexDirs = NoDirs
    /\ shims = NoShims
    /\ lastOp = NoOp
    /\ resolution = <<>>
    /\ firstPicks = <<>>
    /\ walk = NoWalk

NextOptions ==
    \/ Add
    \/ InstallAll

SpecOptions == InitOptions /\ [][NextOptions]_vars

-----------------------------------------------------------------------------
(* The specification of a manifest edited by hand between installs: the    *)
(* user rewrites the range of a dependency in jelly.json and runs          *)
(* `jelly install`                                                         *)

\* the ranges the user writes for a/x; LockfileManager.resolveVersion pins a
\* listed version for each of them
EditRanges ==
    { Exact(<<1, 2, 0>>), Exact(<<1, 4, 3>>), Caret(<<1, 2, 0>>), Tilde(<<1, 4, 0>>) }

InitEdit ==
    /\ regLevel = 0
    /\ opCount = 0
    /\ faulted = FALSE
    /\ manifestExists = TRUE
    /\ \E range \in EditRanges, isDev \in BOOLEAN :
          manifest = addDependency(createJellyConfig, PA, range, isDev)
    /\ rojoExists = TRUE
    /\ lockfile = <<>>
    /\ packagesDir = FALSE
    /\ rootDirs = NoDirs
    /\ indexExists = FALSE
    /\ indexDirs = NoDirs
    /\ shims = NoShims
    /\ lastOp = NoOp
    /\ resolution = <<>>
    /\ firstPicks = <<>>
    /\ walk = NoWalk

\* the user saves jelly.json with another range for a/x; the next
\* readJellyConfig() reads it
EditManifest ==
    \E range \in EditRanges, isDev \in BOOLEAN :
        /\ Has(IF isDev THEN manifest.devDependencies ELSE manifest.dependencies, PA)
        /\ manifest' = addDependency(manifest, PA, range, isDev)
        /\ manifest' # manifest
        /\ lastOp' = Report("edit", "none", Start(World))
        /\ UNCHANGED <<regLevel, opCount, faulted, manifestExists, rojoExists, lockfile,
                       diskVars, analysisVars>>

NextEdit ==
    \/ InstallAll
    \/ EditManifest
    \/ Publish

SpecEdit == InitEdit /\ [][NextEdit]_vars

-----------------------------------------------------------------------------
(* Properties *)

\* the entries of an ordered map, as a set of <<key, value>>
Entries(m) == {<<m[i].k, m[i].v>> : i \in DOMAIN m}

\* the ranges requested for id: by the manifest, and by the dependencies and
\* server dependencies of the versions picked in tree
RequestedRanges(id, tree) ==
    LET direct == Spread(manifest.dependencies, manifest.devDependencies)
        Declared(pick) ==
            Entries(VersionInfo(pick.k, pick.v).dependencies)
            \cup Entries(VersionInfo(pick.k, pick.v).serverDependencies)
    IN  {e[2] : e \in {d \in Entries(direct) : d[1] = id}}
        \cup {e[2] : e \in {d \in UNION {Declared(tree[i]) : i \in DOMAIN tree} :
                              d[1] = id}}

\* the directories _Index holds when it mirrors the lockfile
LockedDirs == {DirName(key) : key \in Keys(lockfile[1].packages)}

\* C1: after any engine operation that returns successfully, every key of the
\* manifest's dependencies and devDependencies is a key of the packages map
\* of the persisted lockfile.
C1_LockfileCoverage ==
    lastOp.result = "success" =>
        \A key \in Keys(Spread(manifest.dependencies, manifest.devDependencies)) :
            lockfile # <<>> /\ Has(lockfile[1].packages, key)

\* C2: every package of the graph resolve_tree returns is picked at the
\* highest registry version that satisfies every range requested for it, by
\* the manifest and by the picked versions that depend on it.
C2_HighestSatisfyingAll ==
    resolution # <<>> =>
        \A i \in DOMAIN resolution[1].tree :
            LET pick == resolution[1].tree[i]
                candidates ==
                    {v \in Versions(pick.k) :
                        \A r \in RequestedRanges(pick.k, resolution[1].tree) :
                            SemverSatisfies(v, r)}
            IN  candidates # {} /\ pick.v = MaxVersion(candidates)

\* C3: the versions resolve_tree picks are the same for every order of the
\* manifest's dependency entries: a resolution after a reordering picks what
\* the first resolution picked.
C3_OrderIndependent ==
    (resolution # <<>> /\ firstPicks # <<>>) =>
        Picks(resolution[1].tree) = firstPicks[1]

\* C4: a package for which no registry version satisfies all the requested
\* ranges gets a Conflict whose resolved version is None, and is absent from
\* the returned graph.
C4_ConflictRecorded ==
    resolution # <<>> =>
        \A id \in Packages :
            LET ranges == RequestedRanges(id, resolution[1].tree)
                unsatisfiable ==
                    /\ ranges # {}
                    /\ ~\E v \in Versions(id) : \A r \in ranges : SemverSatisfies(v, r)
            IN  unsatisfiable =>
                    /\ \E c \in DOMAIN resolution[1].conflicts :
                          /\ resolution[1].conflicts[c].packageName = id
                          /\ resolution[1].conflicts[c].resolvedVersion = <<>>
                    /\ ~Has(resolution[1].tree, id)

\* C5: after install_all completes, the subdirectories of _Index are exactly
\* the {scope}_{name} of the keys of lockfile.packages.
C5_IndexEqualsLockfile ==
    (lastOp.op = "installAll" /\ lastOp.result = "success") =>
        lockfile # <<>> /\ DOMAIN indexDirs = LockedDirs

C7_LockfilePersisted ==
    (lastOp.op \in {"add", "remove", "update"} /\ lastOp.result = "success") =>
        /\ lastOp.lockWritten
        /\ lockfile # <<>>
        /\ Entries(Spread(lockfile[1].dependencies, lockfile[1].devDependencies))
           = Entries(Spread(manifest.dependencies, manifest.devDependencies))

\* C8: whenever add, remove or update returns success, the orphan pruner has
\* run and _Index holds a directory for every key of lockfile.packages and
\* no other package directory.
C8_PrunedAndConsistent ==
    (lastOp.op \in {"add", "remove", "update"} /\ lastOp.result = "success") =>
        /\ lastOp.pruned
        /\ lockfile # <<>>
        /\ LockedDirs \subseteq DOMAIN indexDirs
        /\ DOMAIN indexDirs \subseteq LockedDirs

\* C9: after install_all, every package installed under _Index has the shim
\* {name}.lua of its leaf name, which requires that package's own
\* _Index/{scope}_{name}, an existing directory.
C9_ShimPerPackage ==
    (lastOp.op = "installAll" /\ lastOp.result = "success") =>
        \A p \in Packages :
            DirName(p) \in DOMAIN indexDirs =>
                \E a \in DOMAIN shims :
                    /\ ~a.versioned
                    /\ <<a.name>> = p.name
                    /\ shims[a] = DirName(p)
                    /\ shims[a] \in DOMAIN indexDirs

\* C10: an install of a package whose directory already exists under _Index
\* overwrites it: afterwards _Index/{scope}_{name} holds the content of the
\* version just installed.
C10_StaleOverwritten ==
    [][ (lastOp'.op \in {"add", "installAll", "update"} /\ lastOp'.result = "success") =>
            \A url \in lastOp'.installed :
                DirName(url.pkg) \in DOMAIN indexDirs =>
                    /\ DirName(url.pkg) \in DOMAIN indexDirs'
                    /\ indexDirs'[DirName(url.pkg)].files = <<url>> ]_vars

\* the archives the lockfile pins
Pinned == {lockfile[1].packages[i].v.resolved : i \in DOMAIN lockfile[1].packages}

\* the archives the lockfile pins, but the one at `url`
OtherPinned(url) == Pinned \ {url}

\* the steps of the last operation that ended a package's pipeline at `stage`
StepsAt(stage) == {i \in DOMAIN lastOp.steps : lastOp.steps[i].step = stage}

\* C11: in an install operation (install_all, add) of a project with a Rojo
\* project file, a download that fails does not fail the operation, and
\* every other package of the lockfile is installed.
C11_DownloadFailureNonFatal ==
    (lastOp.op \in {"add", "installAll"} /\ rojoExists) =>
        \A i \in StepsAt("download") :
            /\ lastOp.result = "success"
            /\ lockfile # <<>>
            /\ OtherPinned(lastOp.steps[i].url[1]) \subseteq lastOp.installed

\* C12: when the pipeline of a package fails after its download, then at the
\* end of the install operation there is no _Index/{scope}_{name} for that
\* package and the other packages of the lockfile are installed.
C12_FailedPipelineLeavesNoSlot ==
    (lastOp.op \in {"add", "installAll"} /\ rojoExists) =>
        \A i \in StepsAt("process") :
            /\ DirName(lastOp.steps[i].url[1].pkg) \notin DOMAIN indexDirs
            /\ lockfile # <<>>
            /\ OtherPinned(lastOp.steps[i].url[1]) \subseteq lastOp.installed

\* C13: in an install operation that returns, the shim emission
\* (generatePackageIndex) comes after the pipeline of every package of the
\* lockfile has ended, and the orphan pruner runs after the shim emission.
C13_ShimsThenPruner ==
    (lastOp.op \in {"add", "installAll"} /\ lastOp.result = "success") =>
        \E i \in StepsAt("index") :
            /\ \A j \in DOMAIN lastOp.steps : lastOp.steps[j].url # <<>> => j < i
            /\ \A url \in Pinned :
                   \E j \in 1..(i - 1) : lastOp.steps[j].url = <<url>>
            /\ \E j \in StepsAt("prune") : j > i

\* the packages of a lockfile with their pinned versions, as a resolution
\* tree: package -> version
PinnedTree(lf) == [i \in DOMAIN lf.packages |->
                      [k |-> lf.packages[i].k, v |-> lf.packages[i].v.version]]

\* C14: the packages map of the lockfile generateLockfile produces has the
\* package ids of the graph resolve_tree returns for the manifest's
\* dependencies and devDependencies, each at the version resolve_tree picked.
C14_LockfileIsResolveTree ==
    lastOp.op = "generateLockfile" =>
        Picks(PinnedTree(lastOp.returned[1]))
        = Picks(resolveTree(Spread(manifest.dependencies, manifest.devDependencies)).tree)

\* C15: validateLockfile returns true exactly when a readable lockfile exists
\* and every key of the manifest's dependencies and devDependencies is a key
\* of lockfile.packages.
C15_ValidateIffCovered ==
    lastOp.op = "validateLockfile" =>
        lastOp.returned[1] =
            (/\ readLockfile(lockfile) # <<>>
             /\ \A key \in Keys(Spread(manifest.dependencies, manifest.devDependencies)) :
                    Has(lockfile[1].packages, key))

\* C16: updateLockfile returns a newly generated lockfile when no readable
\* lockfile exists or the manifest's dependencies and devDependencies (ids
\* with their ranges) differ from the lockfile's top-level ones, and the
\* existing lockfile, unchanged, otherwise.
C16_UpdateRegeneratesIffChanged ==
    [][ lastOp'.op = "updateLockfile" =>
            LET existing == readLockfile(lockfile)
                differs ==
                    \/ existing = <<>>
                    \/ Entries(Spread(manifest.dependencies, manifest.devDependencies))
                       # Entries(Spread(existing[1].dependencies,
                                       existing[1].devDependencies))
            IN  lastOp'.returned[1] = IF differs THEN generateLockfile(manifest)
                                      ELSE existing[1] ]_vars

\* C17: readLockfile returns null when the file is missing, is not valid
\* JSON (as any file cut short is) or has a lockfileVersion other than 1,
\* and the stored lockfile otherwise.
C17_ReadAbsentOrWhole ==
    /\ lastOp.op = "truncate" => readLockfile(lockfile) = <<>>
    /\ lastOp.op = "readLockfile" =>
           lastOp.returned = IF \/ lockfile = <<>>
                                \/ lockfile[1] = Malformed
                                \/ lockfile[1].lockfileVersion # 1
                             THEN <<>>
                             ELSE lockfile

\* readLockfile has returned null for a file that holds a lockfile with
\* packages, of lockfileVersion 2
C17_Witness ==
    /\ lastOp.op = "readLockfile"
    /\ lastOp.returned = <<>>
    /\ IsLockfile(lockfile)
    /\ lockfile[1].lockfileVersion = 2
    /\ lockfile[1].packages # <<>>

\* C18: after writeLockfile(L), readLockfile returns L, and writing what was
\* read and reading again returns the same.
C18_WriteReadRoundTrip ==
    lastOp.op \in {"generateLockfile", "updateLockfile"} =>
        /\ readLockfile(lockfile) = lastOp.returned
        /\ readLockfile(writeLockfile(readLockfile(lockfile)[1])) = readLockfile(lockfile)

\* a lockfile with several packages, one of them with dependencies, has been
\* written
C18_Witness ==
    /\ lastOp.op = "generateLockfile"
    /\ IsLockfile(lockfile)
    /\ Len(lockfile[1].packages) >= 2
    /\ \E i \in DOMAIN lockfile[1].packages : lockfile[1].packages[i].v.dependencies # <<>>

RECURSIVE Closure(_, _)
\* the packages reached from the set S of packages through the dependencies
\* and the server dependencies of the versions picked in tree
Closure(S, tree) ==
    LET next == S \cup UNION {Keys(VersionInfo(p, Get(tree, p)).dependencies)
                               \cup Keys(VersionInfo(p, Get(tree, p)).serverDependencies) :
                                   p \in S \cap Keys(tree)}
    IN  IF next = S THEN S ELSE Closure(next, tree)

\* the tree holds the packages reached from the manifest, and the ones it
\* lacks have no version that satisfies every range requested for them
HoldsClosure(tree) ==
    LET reached == Closure(Keys(Spread(manifest.dependencies, manifest.devDependencies)),
                           tree)
    IN  /\ Keys(tree) \subseteq reached
        /\ \A id \in reached \ Keys(tree) :
               ~\E v \in Versions(id) :
                    \A r \in RequestedRanges(id, tree) : SemverSatisfies(v, r)

\* C19: with the manifest {a/x: ^1.2.0, b/y: ^2.0.0}, b/y@2.0.0 depending on
\* a/x ^1.5.0 and a/x at 1.5.2, 1.4.3 and 1.2.0, resolve_tree picks a/x@1.5.2
\* and returns exactly one Conflict, for a/x, with resolved 1.5.2, that lists
\* the root with ^1.2.0 and b/y with ^1.5.0.
C19_ConflictExample ==
    (/\ resolution # <<>>
     /\ regLevel = 0
     /\ manifest.dependencies = <<Dep(PA, Caret(<<1, 2, 0>>)), Dep(PB, Caret(<<2, 0, 0>>))>>) =>
        /\ Has(resolution[1].tree, PA)
        /\ Get(resolution[1].tree, PA) = <<1, 5, 2>>
        /\ Len(resolution[1].conflicts) = 1
        /\ resolution[1].conflicts[1].packageName = PA
        /\ resolution[1].conflicts[1].resolvedVersion = <<<<1, 5, 2>>>>
        /\ {<<c.requiredBy, c.versionRange>> :
               c \in {resolution[1].conflicts[1].conflicts[i] :
                         i \in DOMAIN resolution[1].conflicts[1].conflicts}}
           = {<<<<>>, Caret(<<1, 2, 0>>)>>, <<<<PB>>, Caret(<<1, 5, 0>>)>>}

\* C20: the graph resolve_tree returns, and the packages map of a generated
\* lockfile, hold exactly the packages reached from the manifest's
\* dependencies and devDependencies through the dependencies and server
\* dependencies of the picked versions (but those no version can satisfy);
\* the dev-dependencies of a picked package add nothing.
C20_TransitiveClosure ==
    /\ resolution # <<>> => HoldsClosure(resolution[1].tree)
    /\ lastOp.op = "generateLockfile" => HoldsClosure(PinnedTree(lastOp.returned[1]))

\* the entry the loop of the innermost call is at
AtEntry == walk.status = "running" /\ Top(walk).dependencies # <<>>

\* C21: a call of resolve_tree returns, also on a registry with a cycle: the
\* nested calls are never deeper than the packages visited, a call in
\* progress ends, and an entry for a visited package whose picked version
\* satisfies its range changes nothing and starts no nested call; the
\* lockfile generation on the same registry enters no package twice.
C21_ResolveTerminates ==
    /\ [](/\ walk.visited \subseteq Packages
          /\ Len(walk.stack) <= Cardinality(walk.visited) + 1
          /\ lastOp.op = "generateLockfile" =>
                 Len(lastOp.returned[1].packages) <= Cardinality(Packages))
    /\ [][ (/\ AtEntry
            /\ Head(Top(walk).dependencies).k \in walk.visited
            /\ Has(walk.tree, Head(Top(walk).dependencies).k)
            /\ SemverSatisfies(Get(walk.tree, Head(Top(walk).dependencies).k),
                               Head(Top(walk).dependencies).v)
            /\ walk' # walk) =>
               /\ walk' = Continue(walk, Top(walk).conflicts)
               /\ Len(walk'.stack) = Len(walk.stack) ]_vars
    /\ (walk.status = "running") ~> (walk.status = "done")

\* a call has returned on the registry with the cycle, having picked a/x@1.7.0
\* and, for it, b/y@2.0.0, which requires a/x again
C21_Witness ==
    /\ walk.status = "done"
    /\ regLevel = 2
    /\ Has(walk.tree, PA) /\ Get(walk.tree, PA) = <<1, 7, 0>>
    /\ Has(walk.tree, PB) /\ Get(walk.tree, PB) = <<2, 0, 0>>
    /\ walk.conflicts = <<>>

\* no element is twice in the sequence
NoRepeat(seq) == \A i, j \in DOMAIN seq : seq[i] = seq[j] => i = j

\* C22: the metadata of a package is requested from the registry at most
\* once: neither a call of resolve_tree nor a lockfile generation asks for the
\* metadata of a package it has asked for before.
C22_MetadataRequestedOnce ==
    /\ NoRepeat(walk.requests)
    /\ lastOp.op = "generateLockfile" => NoRepeat(generateRequests(manifest))

\* the package ids of the manifest's three dependency maps
ManifestIds(config) ==
    Keys(Spread(Spread(config.dependencies, config.devDependencies),
                config.serverDependencies))

\* the shim files named {name}.lua after the leaf name of the package p
ShimsOf(p, files) == {a \in DOMAIN files : ~a.versioned /\ <<a.name>> = p.name}

\* C23: after clean no _Index directory is left whose {scope}_{name} is of no
\* package of the manifest and no shim whose name is the leaf name of no
\* package of the manifest, and the _Index directory and the shim that a
\* package of the manifest had before are still there.
C23_CleanRemovesExactlyOrphans ==
    [][ (lastOp'.op = "clean" /\ lastOp'.result = "success") =>
            /\ \A d \in DOMAIN indexDirs' :
                   \E p \in ManifestIds(manifest') : DirName(p) = d
            /\ \A a \in DOMAIN shims' :
                   \E p \in ManifestIds(manifest') : a \in ShimsOf(p, shims')
            /\ \A p \in ManifestIds(manifest) :
                   /\ DirName(p) \in DOMAIN indexDirs => DirName(p) \in DOMAIN indexDirs'
                   /\ ShimsOf(p, shims) # {} => ShimsOf(p, shims') # {} ]_vars

\* C24: a clean run right after a clean changes nothing: the directories of
\* _Index, the directories of Packages and the shim files (their names and
\* the package each requires) are as the first run left them.
C24_CleanIdempotent ==
    [][ (/\ lastOp.op = "clean" /\ lastOp.result = "success"
         /\ lastOp'.op = "clean") =>
            /\ lastOp'.result = "success"
            /\ DOMAIN indexDirs' = DOMAIN indexDirs
            /\ DOMAIN rootDirs' = DOMAIN rootDirs
            /\ shims' = shims
            /\ indexExists' = indexExists ]_vars

\* the dependency maps of the manifest that have the package as a key
MapsWith(p) ==
    {name \in {"dependencies", "devDependencies", "serverDependencies"} :
        Has(manifest[name], p)}

\* C25: after any sequence of init, add, remove and update, no package is a
\* key of more than one of the manifest's dependencies, devDependencies and
\* serverDependencies.
C25_DisjointDepMaps ==
    \A p \in Packages : Cardinality(MapsWith(p)) <= 1

\* v is within the bounds of ^base: base <= v < 0.(y+1).0 for base 0.y.z,
\* base <= v < (x+1).0.0 for base x.y.z with x >= 1
InCaret(v, base) ==
    /\ VGe(v, base)
    /\ VGt(IF base[1] = 0 THEN <<0, base[2] + 1, 0>> ELSE <<base[1] + 1, 0, 0>>, v)

\* The first entry of the manifest is resolved for its own range, by the
\* resolver and by the lockfile generation alike: when that range is a caret
\* range, the version pinned for its package is within the bounds.
FirstWithinCaret(tree) ==
    LET allDeps == Spread(manifest.dependencies, manifest.devDependencies)
    IN  (/\ allDeps # <<>>
         /\ Head(allDeps).v.kind = "caret"
         /\ Has(tree, Head(allDeps).k)) =>
            InCaret(Get(tree, Head(allDeps).k), Head(allDeps).v.v)

\* C26: a caret range is satisfied only by the versions within its bounds, so
\* neither the graph resolve_tree returns nor a generated lockfile pins the
\* package of a caret requirement outside the bounds of the range.
C26_CaretBounds ==
    /\ resolution # <<>> => FirstWithinCaret(resolution[1].tree)
    /\ lastOp.op = "generateLockfile" => FirstWithinCaret(PinnedTree(lastOp.returned[1]))

\* the content of the directory of a package, in Packages or moved to _Index
DirOf(pkg) ==
    IF DirName(pkg) \in DOMAIN rootDirs THEN rootDirs[DirName(pkg)]
    ELSE indexDirs[DirName(pkg)]

\* C27: with jelly.optimize and jelly.cleanup both false in the manifest, the
\* directory of every package an install operation installed holds the files
\* of the extracted archive, as extracted.
C27_NoProcessingWhenDisabled ==
    (/\ lastOp.op \in {"add", "installAll"}
     /\ ~manifest.jelly.optimize /\ ~manifest.jelly.cleanup) =>
        \A url \in lastOp.installed :
            /\ DirName(url.pkg) \in (DOMAIN rootDirs) \cup (DOMAIN indexDirs)
            /\ DirOf(url.pkg).files = <<url>>
            /\ DirOf(url.pkg).raw

\* C28: init creates a fresh manifest when there is none; when there is one
\* it fails and leaves the manifest as it is.
C28_InitOnlyWhenAbsent ==
    [][ lastOp'.op = "init" =>
            IF manifestExists
            THEN /\ lastOp'.result = "failed"
                 /\ manifestExists' /\ manifest' = manifest
            ELSE /\ lastOp'.result = "success"
                 /\ manifestExists' /\ manifest' = createJellyConfig ]_vars

\* the entry of the lockfile file for a package, <<>> when there is none
PinOf(file, pkg) ==
    IF readLockfile(file) = <<>> THEN <<>>
    ELSE SelectSeq(readLockfile(file)[1].packages, LAMBDA e : e.k = pkg)

\* the package is pinned and installed at a version its range takes
PinnedWithin(pkg, range) ==
    /\ PinOf(lockfile, pkg) # <<>>
    /\ SemverSatisfies(PinOf(lockfile, pkg)[1].v.version, range)
    /\ PinOf(lockfile, pkg)[1].v.resolved \in lastOp.installed

\* C29: after an install of the whole manifest in which every download went
\* through, each package of the manifest's dependencies and devDependencies
\* is pinned in the lockfile, and installed, at a version that satisfies the
\* range the manifest gives for it now.
C29_InstallAllFollowsManifest ==
    (/\ lastOp.op = "installAll" /\ lastOp.result = "success"
     /\ lastOp.fetched = lastOp.installed) =>
        \A i \in DOMAIN Spread(manifest.dependencies, manifest.devDependencies) :
            PinnedWithin(Spread(manifest.dependencies, manifest.devDependencies)[i].k,
                         Spread(manifest.dependencies, manifest.devDependencies)[i].v)

\* every package an entry of packages names in its dependencies is a key of
\* packages
ClosedUnderDependencies(packages) ==
    \A i \in DOMAIN packages :
        Keys(packages[i].v.dependencies) \subseteq Keys(packages)

\* C30: the packages map of every lockfile generateLockfile produces holds,
\* for each of its entries, an entry for every package named in that entry's
\* dependencies.
C30_LockfileClosed ==
    lastOp.op = "generateLockfile" =>
        ClosedUnderDependencies(lastOp.returned[1].packages)

=============================================================================
